---- MODULE Spec2Model ----
(***************************************************************************)
(* The channel participant engine `User` of iota-streams-app-channels     *)
(* (src/iota-streams-app-channels/src/api/user.rs) as a state machine.     *)
(*                                                                         *)
(* One User is modelled: its fields are the variables, every public       *)
(* operation is one action.  Every operation is first written as an       *)
(* operator over a record `u` of the User's fields that returns           *)
(* [res, u, val]: the Result (ok / err / panic), the fields afterwards    *)
(* and the value returned; the action applies it to the variables.        *)
(* Messages handed to the handle_* operations are drawn from the messages *)
(* other participants can build, together with the message the User       *)
(* itself wrapped last.                                                    *)
(***************************************************************************)
EXTENDS Integers, Sequences, FiniteSets, TLC

----------------------------------------------------------------------------
(* Bounds of the model *)

\* the number of operations called on the User in one behaviour
MaxCalls == 4

----------------------------------------------------------------------------
(* Constants of the program *)

ANN_MESSAGE_NUM == 0
SUB_MESSAGE_NUM == 0
SEQ_MESSAGE_NUM == 1
FLAG_BRANCHING_MASK == 1

\* content types of the message module
ANNOUNCE == "ANNOUNCE"
SUBSCRIBE == "SUBSCRIBE"
KEYLOAD == "KEYLOAD"
SIGNED_PACKET == "SIGNED_PACKET"
TAGGED_PACKET == "TAGGED_PACKET"
SEQUENCE == "SEQUENCE"
ContentTypes == {ANNOUNCE, SUBSCRIBE, KEYLOAD, SIGNED_PACKET, TAGGED_PACKET, SEQUENCE}

----------------------------------------------------------------------------
(* Identities: sig_kp.public of the modelled User, and the other keys *)

Me == "A"
Peers == {"B"}
Keys == {Me} \cup Peers
\* the keys a keyload may list: the participants', and one not seen before
Recipients == Keys \cup {"C"}
\* the recipient lists of the keyloads other participants send
RecipientLists == (SUBSET Keys) \cup {Recipients, Recipients \ {Me}}
NoKey == "-"

\* pre-shared key ids
PskIds == {"psk"}

\* channel indices given to create_channel
ChannelIdxs == {0}

\* payload bytes
Payloads == {"hello"}
MaskedPayloads == {"secret"}
NoPayload == ""

----------------------------------------------------------------------------
(* Option<T> *)

None == <<>>
Some(x) == <<x>>
IsSome(o) == o # <<>>
IsNone(o) == o = <<>>
Unwrap(o) == o[1]

----------------------------------------------------------------------------
(* Cursor<Rel> = { link, branch_no, seq_no } *)

new_at(link, branch_no, seq_no) ==
    [link |-> link, branch_no |-> branch_no, seq_no |-> seq_no]

\* seq_no is a u32.  A u32 is kept as its 32 bits read in two's complement, so
\* that + and - wrap at 2^32 as the arithmetic of a build without overflow
\* checks does: u32::MAX is -1, u32::MAX + 1 is 0, and 0 - 1 is u32::MAX.
U32_MAX == -1

next_seq(cursor) == [cursor EXCEPT !.seq_no = @ + 1]

----------------------------------------------------------------------------
(* Links.  A link has a base (the channel) and a rel (the message).  A rel *)
(* is the sequence of (pk, branch_no, seq_no) derivation steps that lead   *)
(* to it, so that link_from is injective (collision resistant).            *)

NoRel == <<>>
\* a rel link no message was ever committed under
UnknownRel == <<"?", 0, 0>>
DefaultLink == [base |-> <<NoKey, 0>>, rel |-> <<NoKey, 0, 0>>]
OtherBase == <<"?", 0>>

\* LinkGenerator::gen followed by ::get: the announcement link of (pk, channel_idx)
LinkGenGen(pk, channel_idx) ==
    [base |-> <<pk, channel_idx>>, rel |-> <<pk, 0, ANN_MESSAGE_NUM>>]

\* LinkGenerator::get: the anchored link
LinkGenGet(link_gen) == link_gen

\* LinkGenerator::reset
LinkGenReset(link_gen, link) == link

\* LinkGenerator::link_from(pk, cursor): pure in (anchor base, pk, cursor)
link_from(link_gen, pk, cursor) ==
    [base |-> link_gen.base,
     rel  |-> cursor.link \o <<pk, cursor.branch_no, cursor.seq_no>>]

----------------------------------------------------------------------------
(* PublicKeyStore: sig_pk -> Cursor; LinkStore: rel -> committed state *)

EmptyPkStore == [k \in {} |-> new_at(NoRel, 0, 0)]

PkInsert(store, pk, cursor) ==
    [k \in DOMAIN store \cup {pk} |-> IF k = pk THEN cursor ELSE store[k]]

PkGet(store, pk) == IF pk \in DOMAIN store THEN Some(store[pk]) ELSE None

\* get_ke_pk: the key-agreement key is derived from a stored signing key
PkGetKePk(store, pk) == IF pk \in DOMAIN store THEN Some(pk) ELSE None

\* filter(pks): the stored ones among pks
PkFilter(store, pks) == pks \cap DOMAIN store

PkKeys(store) == DOMAIN store

LinkStoreInsert(store, rel) == store \cup {rel}

LinkStoreContains(store, rel) == rel \in store

----------------------------------------------------------------------------
(* Messages.  A BinaryMessage is kept as its header fields, the content it *)
(* carries and whether it is intact (signature / MAC / body not tampered). *)

Message(link, content_type, seq_num) ==
    [link |-> link, content_type |-> content_type, seq_num |-> seq_num,
     link_to |-> NoRel, sig_pk |-> NoKey, flags |-> 0,
     public_payload |-> NoPayload, masked_payload |-> NoPayload,
     psk_ids |-> {}, ke_pks |-> {}, author_ke_pk |-> NoKey,
     ref_link |-> NoRel, ref_seq |-> 0, intact |-> TRUE]

\* WrappedMessage = { message, wrapped: WrapState }; the WrapState commits
\* under the message's link
WrappedMessage(m) == [message |-> m, wrapped |-> [link |-> m.link]]

----------------------------------------------------------------------------
(* Results of an operation: Ok(val) / Err(e), with the fields afterwards *)

\* the errors of user.rs, and those the message pipeline surfaces
NoErr == "-"
E_CREATED == "Can't create channel: a channel already created/registered."
E_NOT_ANNOUNCE == "Message is not an announcement"
E_REGISTERED == "Got Announce with address, but already registered to a channel"
E_NO_AUTHOR_KE == "Internal error: author's key exchange public key not found."
E_NO_AUTHOR == "Subscriber doesn't have channel Author's x25519 public key."
E_NO_AUTHOR_PK == "Can't unwrap keyload, no author's public key"
E_BAD_SEQ == "Internal error: bad seq num"
E_NO_CHANNEL == "No channel registered."
E_BAD_APPINST == "Bad message application instance."
E_LINK_NOT_FOUND == "link not found"
E_PARSE == "body does not parse as the content type"
E_CRYPTO == "signature, MAC or key agreement failed"

Ok(u, val) == [res |-> "ok", u |-> u, val |-> val]
Err(u, e) == [res |-> "err", u |-> u, val |-> Some(e)]
Panic(u) == [res |-> "panic", u |-> u, val |-> None]

\* User::gen: the fields after construction
gen(flags_in, psks) ==
    [appinst |-> None, author_sig_pk |-> None, flags |-> flags_in,
     pk_store |-> EmptyPkStore, psk_store |-> psks, link_store |-> {},
     link_gen |-> DefaultLink]

----------------------------------------------------------------------------
(* The message pipeline (PreparedMessage::wrap, PreparsedMessage::unwrap,  *)
(* UnwrappedMessage::commit, WrapState::commit)                            *)

\* wrap: joins the sponge state stored under link_to; an announcement has
\* no parent
Wrap(u, m) ==
    IF m.content_type = ANNOUNCE \/ LinkStoreContains(u.link_store, m.link_to)
    THEN Ok(u, Some(WrappedMessage(m)))
    ELSE Err(u, E_LINK_NOT_FOUND)

\* unwrap of content kind ct: the body parses as ct and signature / MAC
\* verify, the parent state is in the link store; the error, or NoErr
UnwrapErr(u, m, ct) ==
    IF m.content_type # ct THEN E_PARSE
    ELSE IF ct # ANNOUNCE /\ ~LinkStoreContains(u.link_store, m.link_to)
         THEN E_LINK_NOT_FOUND
    ELSE IF ~m.intact THEN E_CRYPTO
    ELSE NoErr

\* commit: the sponge state is stored under the rel of the message's link
Commit(u, link) == [u EXCEPT !.link_store = LinkStoreInsert(@, link.rel)]

----------------------------------------------------------------------------
(* User: channel creation and announcement *)

\* create_channel without its ensure!(appinst.is_none())
create_channel_unguarded(u, channel_idx) ==
    LET lg == LinkGenGen(Me, channel_idx)
        appinst_link == LinkGenGet(lg)
    IN Ok([u EXCEPT !.link_gen = lg,
                    !.pk_store = PkInsert(@, Me, new_at(appinst_link.rel, 0, 2)),
                    !.appinst = Some(appinst_link)],
          None)

create_channel(u, channel_idx) ==
    IF ~IsNone(u.appinst) THEN Err(u, E_CREATED)
    ELSE LET lg == LinkGenGen(Me, channel_idx)
             appinst_link == LinkGenGet(lg)
         IN Ok([u EXCEPT !.link_gen = lg,
                         !.pk_store = PkInsert(@, Me, new_at(appinst_link.rel, 0, 2)),
                         !.appinst = Some(appinst_link)],
               None)

commit_wrapped(u, wrapped) == Ok(Commit(u, wrapped.link), Some(wrapped.link))

prepare_announcement(u) ==
    [Message(LinkGenGet(u.link_gen), ANNOUNCE, ANN_MESSAGE_NUM)
        EXCEPT !.sig_pk = Me, !.flags = u.flags]

announce(u) == Wrap(u, prepare_announcement(u))

\* unwrap_announcement without the comparison of the link with appinst
unwrap_announcement_any_link(u, m) == UnwrapErr(u, m, ANNOUNCE)

\* the error, or NoErr
unwrap_announcement(u, m) ==
    IF IsSome(u.appinst) /\ Unwrap(u.appinst) # m.link THEN E_REGISTERED
    ELSE UnwrapErr(u, m, ANNOUNCE)

\* handle_announcement that keeps the flags given to gen
handle_announcement_keeps_flags(u, m) ==
    IF m.content_type # ANNOUNCE THEN Err(u, E_NOT_ANNOUNCE)
    ELSE IF unwrap_announcement(u, m) # NoErr THEN Err(u, unwrap_announcement(u, m))
    ELSE LET link == m.link
             u1 == Commit(u, link)
             cursor == new_at(link.rel, 0, 2)
         IN Ok([u1 EXCEPT !.pk_store = PkInsert(PkInsert(@, m.sig_pk, cursor), Me, cursor),
                          !.link_gen = LinkGenReset(@, link),
                          !.appinst = Some(link),
                          !.author_sig_pk = Some(m.sig_pk)],
               None)

\* handle_announcement that refuses any announcement once a channel is registered
handle_announcement_once(u, m) ==
    IF m.content_type # ANNOUNCE THEN Err(u, E_NOT_ANNOUNCE)
    ELSE IF IsSome(u.appinst) THEN Err(u, E_REGISTERED)
    ELSE IF UnwrapErr(u, m, ANNOUNCE) # NoErr THEN Err(u, UnwrapErr(u, m, ANNOUNCE))
    ELSE LET link == m.link
             u1 == Commit(u, link)
             cursor == new_at(link.rel, 0, 2)
         IN Ok([u1 EXCEPT !.pk_store = PkInsert(PkInsert(@, m.sig_pk, cursor), Me, cursor),
                          !.link_gen = LinkGenReset(@, link),
                          !.appinst = Some(link),
                          !.author_sig_pk = Some(m.sig_pk),
                          !.flags = m.flags],
               None)

\* handle_announcement that unwraps without comparing the link with appinst
handle_announcement_rebinds(u, m) ==
    IF m.content_type # ANNOUNCE THEN Err(u, E_NOT_ANNOUNCE)
    ELSE IF UnwrapErr(u, m, ANNOUNCE) # NoErr THEN Err(u, UnwrapErr(u, m, ANNOUNCE))
    ELSE LET link == m.link
             u1 == Commit(u, link)
             cursor == new_at(link.rel, 0, 2)
         IN Ok([u1 EXCEPT !.pk_store = PkInsert(PkInsert(@, m.sig_pk, cursor), Me, cursor),
                          !.link_gen = LinkGenReset(@, link),
                          !.appinst = Some(link),
                          !.author_sig_pk = Some(m.sig_pk),
                          !.flags = m.flags],
               None)

handle_announcement(u, m) ==
    IF m.content_type # ANNOUNCE THEN Err(u, E_NOT_ANNOUNCE)
    ELSE IF unwrap_announcement(u, m) # NoErr THEN Err(u, unwrap_announcement(u, m))
    ELSE LET link == m.link
             u1 == Commit(u, link)
             cursor == new_at(link.rel, 0, 2)
         IN Ok([u1 EXCEPT !.pk_store = PkInsert(PkInsert(@, m.sig_pk, cursor), Me, cursor),
                          !.link_gen = LinkGenReset(@, link),
                          !.appinst = Some(link),
                          !.author_sig_pk = Some(m.sig_pk),
                          !.flags = m.flags],
               None)

----------------------------------------------------------------------------
(* User: helpers *)

get_seq_no(u) ==
    IF Me \in DOMAIN u.pk_store THEN Some(u.pk_store[Me].seq_no) ELSE None

ensure_appinst(u, m) ==
    IF ~IsSome(u.appinst) THEN E_NO_CHANNEL
    ELSE IF Unwrap(u.appinst).base # m.link.base THEN E_BAD_APPINST
    ELSE NoErr

\* e1?; e2
Then(e1, e2) == IF e1 # NoErr THEN e1 ELSE e2

\* a prepare_* result: the prepared message, or the error
Prepared(m) == [err |-> NoErr, m |-> Some(m)]
NotPrepared(e) == [err |-> e, m |-> None]

\* prepare_*()?.wrap()
WrapPrepared(u, p) == IF p.err # NoErr THEN Err(u, p.err) ELSE Wrap(u, Unwrap(p.m))

\* (flags & FLAG_BRANCHING_MASK) != 0; the mask is a single bit
is_multi_branching(u) == (u.flags \div FLAG_BRANCHING_MASK) % 2 # 0

----------------------------------------------------------------------------
(* User: subscription *)

prepare_subscribe(u, link_to) ==
    IF IsSome(u.author_sig_pk)
    THEN IF IsSome(PkGetKePk(u.pk_store, Unwrap(u.author_sig_pk)))
         THEN Prepared(
                [Message(link_from(u.link_gen, Me, new_at(link_to, 0, SUB_MESSAGE_NUM)),
                         SUBSCRIBE, SUB_MESSAGE_NUM)
                   EXCEPT !.link_to = link_to, !.sig_pk = Me,
                          !.author_ke_pk = Unwrap(PkGetKePk(u.pk_store, Unwrap(u.author_sig_pk)))])
         ELSE NotPrepared(E_NO_AUTHOR_KE)
    ELSE NotPrepared(E_NO_AUTHOR)

subscribe(u, link_to) == WrapPrepared(u, prepare_subscribe(u, link_to))

\* unwrap_subscribe that decrypts a content addressed to anybody
unwrap_subscribe_any_recipient(u, m) ==
    Then(ensure_appinst(u, m), UnwrapErr(u, m, SUBSCRIBE))

\* the content is decrypted with the own key-agreement secret ke_kp.0
unwrap_subscribe(u, m) ==
    Then(ensure_appinst(u, m),
    Then(UnwrapErr(u, m, SUBSCRIBE),
         IF m.author_ke_pk # Me THEN E_CRYPTO ELSE NoErr))

handle_subscribe(u, m) ==
    IF unwrap_subscribe(u, m) # NoErr THEN Err(u, unwrap_subscribe(u, m))
    ELSE LET u1 == Commit(u, m.link)
             subscriber_sig_pk == m.sig_pk
             ref_link == Unwrap(u1.appinst).rel
         IN Ok([u1 EXCEPT !.pk_store =
                    PkInsert(@, subscriber_sig_pk, new_at(ref_link, 0, SEQ_MESSAGE_NUM))],
               None)

----------------------------------------------------------------------------
(* User: keyload *)

do_prepare_keyload(u, header, link_to, psks, ke_pks) ==
    [header EXCEPT !.link_to = link_to, !.sig_pk = Me,
                   !.psk_ids = psks, !.ke_pks = ke_pks]

prepare_keyload(u, link_to, psk_ids, pks) ==
    LET seq_no == get_seq_no(u)
    IN IF IsNone(seq_no) THEN NotPrepared(E_BAD_SEQ)
       ELSE Prepared(do_prepare_keyload(u,
                    Message(link_from(u.link_gen, Me, new_at(link_to, 0, Unwrap(seq_no))),
                            KEYLOAD, Unwrap(seq_no)),
                    link_to, psk_ids \cap u.psk_store, PkFilter(u.pk_store, pks)))

prepare_keyload_for_everyone(u, link_to) ==
    LET seq_no == get_seq_no(u)
    IN IF IsNone(seq_no) THEN NotPrepared(E_BAD_SEQ)
       ELSE Prepared(do_prepare_keyload(u,
                    Message(link_from(u.link_gen, Me, new_at(link_to, 0, Unwrap(seq_no))),
                            KEYLOAD, Unwrap(seq_no)),
                    link_to, u.psk_store, PkKeys(u.pk_store)))

share_keyload(u, link_to, psk_ids, ke_pks) ==
    WrapPrepared(u, prepare_keyload(u, link_to, psk_ids, ke_pks))

share_keyload_for_everyone(u, link_to) ==
    WrapPrepared(u, prepare_keyload_for_everyone(u, link_to))

lookup_psk(u, pskid) == pskid \in u.psk_store

\* lookup_ke_sk that hands out the own secret for every key
lookup_ke_sk_for_any_key(u, ke_pk) == TRUE

lookup_ke_sk(u, ke_pk) == Me = ke_pk

\* the signature is verified against author_sig_pk
unwrap_keyload(u, m) ==
    Then(ensure_appinst(u, m),
         IF ~IsSome(u.author_sig_pk) THEN E_NO_AUTHOR_PK
         ELSE Then(UnwrapErr(u, m, KEYLOAD),
                   IF m.sig_pk # Unwrap(u.author_sig_pk) THEN E_CRYPTO ELSE NoErr))

\* content.key.is_some(): a listed pre-shared key or key-agreement slot
\* yields the session key
keyload_key_is_some(u, m) ==
    \/ \E id \in m.psk_ids : lookup_psk(u, id)
    \/ \E pk \in m.ke_pks : lookup_ke_sk(u, pk)

\* handle_keyload that stores every listed recipient anew, known or not
handle_keyload_resets_known(u, m) ==
    IF unwrap_keyload(u, m) # NoErr THEN Err(u, unwrap_keyload(u, m))
    ELSE LET u1 == Commit(u, m.link)
         IN IF keyload_key_is_some(u1, m)
            THEN Ok([u1 EXCEPT !.pk_store =
                        [k \in DOMAIN @ \cup m.ke_pks |->
                            IF k \in m.ke_pks
                            THEN new_at(Unwrap(u1.appinst).rel, 0, 2)
                            ELSE @[k]]],
                    Some(<<m.link, TRUE>>))
            ELSE Ok(u1, Some(<<m.link, FALSE>>))

handle_keyload(u, m) ==
    IF unwrap_keyload(u, m) # NoErr THEN Err(u, unwrap_keyload(u, m))
    ELSE LET u1 == Commit(u, m.link)
         IN IF keyload_key_is_some(u1, m)
            THEN Ok(IF IsSome(u1.appinst)
                    THEN [u1 EXCEPT !.pk_store =
                            [k \in DOMAIN @ \cup m.ke_pks |->
                                IF k \in DOMAIN @ THEN @[k]
                                ELSE new_at(Unwrap(u1.appinst).rel, 0, 2)]]
                    ELSE u1,
                    Some(<<m.link, TRUE>>))
            ELSE Ok(u1, Some(<<m.link, FALSE>>))

----------------------------------------------------------------------------
(* User: signed and tagged packets *)

prepare_signed_packet(u, link_to, public_payload, masked_payload) ==
    LET seq_no == get_seq_no(u)
    IN IF IsNone(seq_no) THEN NotPrepared(E_BAD_SEQ)
       ELSE Prepared([Message(link_from(u.link_gen, Me, new_at(link_to, 0, Unwrap(seq_no))),
                          SIGNED_PACKET, Unwrap(seq_no))
                    EXCEPT !.link_to = link_to, !.sig_pk = Me,
                           !.public_payload = public_payload,
                           !.masked_payload = masked_payload])

sign_packet(u, link_to, public_payload, masked_payload) ==
    WrapPrepared(u, prepare_signed_packet(u, link_to, public_payload, masked_payload))

unwrap_signed_packet(u, m) ==
    Then(ensure_appinst(u, m), UnwrapErr(u, m, SIGNED_PACKET))

\* handle_signed_packet whose body carries the two payloads in the other order
handle_signed_packet_swaps_payloads(u, m) ==
    IF unwrap_signed_packet(u, m) # NoErr THEN Err(u, unwrap_signed_packet(u, m))
    ELSE Ok(Commit(u, m.link),
            Some(<<m.link, <<m.sig_pk, m.masked_payload, m.public_payload>> >>))

\* handle_signed_packet that commits the message's link before the unwrap result
\* is checked
handle_signed_packet_commits_first(u, m) ==
    IF unwrap_signed_packet(u, m) # NoErr
    THEN Err(Commit(u, m.link), unwrap_signed_packet(u, m))
    ELSE Ok(Commit(u, m.link),
            Some(<<m.link, <<m.sig_pk, m.public_payload, m.masked_payload>> >>))

handle_signed_packet(u, m) ==
    IF unwrap_signed_packet(u, m) # NoErr THEN Err(u, unwrap_signed_packet(u, m))
    ELSE Ok(Commit(u, m.link),
            Some(<<m.link, <<m.sig_pk, m.public_payload, m.masked_payload>> >>))

prepare_tagged_packet(u, link_to, public_payload, masked_payload) ==
    LET seq_no == get_seq_no(u)
    IN IF IsNone(seq_no) THEN NotPrepared(E_BAD_SEQ)
       ELSE Prepared([Message(link_from(u.link_gen, Me, new_at(link_to, 0, Unwrap(seq_no))),
                          TAGGED_PACKET, Unwrap(seq_no))
                    EXCEPT !.link_to = link_to,
                           !.public_payload = public_payload,
                           !.masked_payload = masked_payload])

tag_packet(u, link_to, public_payload, masked_payload) ==
    WrapPrepared(u, prepare_tagged_packet(u, link_to, public_payload, masked_payload))

unwrap_tagged_packet(u, m) ==
    Then(ensure_appinst(u, m), UnwrapErr(u, m, TAGGED_PACKET))

handle_tagged_packet(u, m) ==
    IF unwrap_tagged_packet(u, m) # NoErr THEN Err(u, unwrap_tagged_packet(u, m))
    ELSE Ok(Commit(u, m.link),
            Some(<<m.link, <<m.public_payload, m.masked_payload>> >>))

----------------------------------------------------------------------------
(* User: sequencing *)

\* WrapStateSequence(cursor, Option<WrapState>)
WrapStateSequence(cursor, state) == [cursor |-> cursor, state |-> state]

\* WrappedSequence(Option<BinaryMessage>, Option<WrapStateSequence>)
WrappedSequence(message, wrapped) == [message |-> message, wrapped |-> wrapped]

store_state_for_all(u, link, seq_no) ==
    LET inserted == PkInsert(u.pk_store, Me, new_at(link, 0, seq_no + 1))
    IN Ok([u EXCEPT !.pk_store =
                [k \in DOMAIN inserted |->
                    [inserted[k] EXCEPT !.link = link, !.seq_no = seq_no + 1]]],
          None)

\* store_state_for_all in a build with overflow checks (the debug profile):
\* seq_no + 1 panics at u32::MAX before anything is stored; the operator above
\* is the build without them (the release profile), where it wraps to 0
store_state_for_all_checked(u, link, seq_no) ==
    IF seq_no = U32_MAX THEN Panic(u) ELSE store_state_for_all(u, link, seq_no)

store_state(u, pk, link) ==
    IF IsNone(PkGet(u.pk_store, pk)) THEN Panic(u)
    ELSE LET cursor == next_seq([Unwrap(PkGet(u.pk_store, pk)) EXCEPT !.link = link])
         IN Ok([u EXCEPT !.pk_store = PkInsert(@, pk, cursor)], None)

\* wrap_sequence that, without the branching flag, returns the cursor as stored
wrap_sequence_keeps_link(u, ref_link) ==
    LET got == PkGet(u.pk_store, Me)
    IN IF IsNone(got) THEN Ok(u, Some(WrappedSequence(None, None)))
       ELSE LET cursor == Unwrap(got)
            IN IF is_multi_branching(u)
               THEN LET msg_link == link_from(u.link_gen, Me,
                                              new_at(cursor.link, 0, SEQ_MESSAGE_NUM))
                        m == [Message(msg_link, SEQUENCE, SEQ_MESSAGE_NUM)
                                EXCEPT !.link_to = cursor.link, !.sig_pk = Me,
                                       !.ref_seq = cursor.seq_no, !.ref_link = ref_link]
                        w == Wrap(u, m)
                    IN IF w.res # "ok" THEN w
                       ELSE Ok(u, Some(WrappedSequence(
                                    Some(Unwrap(w.val).message),
                                    Some(WrapStateSequence(cursor,
                                            Some(Unwrap(w.val).wrapped))))))
               ELSE Ok(u, Some(WrappedSequence(
                            None, Some(WrapStateSequence(cursor, None)))))

wrap_sequence(u, ref_link) ==
    LET got == PkGet(u.pk_store, Me)
    IN IF IsNone(got) THEN Ok(u, Some(WrappedSequence(None, None)))
       ELSE LET cursor == Unwrap(got)
            IN IF is_multi_branching(u)
               THEN LET msg_link == link_from(u.link_gen, Me,
                                              new_at(cursor.link, 0, SEQ_MESSAGE_NUM))
                        m == [Message(msg_link, SEQUENCE, SEQ_MESSAGE_NUM)
                                EXCEPT !.link_to = cursor.link, !.sig_pk = Me,
                                       !.ref_seq = cursor.seq_no, !.ref_link = ref_link]
                        w == Wrap(u, m)
                    IN IF w.res # "ok" THEN w
                       ELSE Ok(u, Some(WrappedSequence(
                                    Some(Unwrap(w.val).message),
                                    Some(WrapStateSequence(cursor,
                                            Some(Unwrap(w.val).wrapped))))))
               ELSE Ok(u, Some(WrappedSequence(
                            None,
                            Some(WrapStateSequence([cursor EXCEPT !.link = ref_link],
                                                   None)))))

\* commit_sequence without cursor.next_seq()
commit_sequence_keeps_seq_no(u, wrapped) ==
    IF IsSome(wrapped.state)
    THEN LET link == Unwrap(wrapped.state).link
             cursor == [wrapped.cursor EXCEPT !.link = link.rel]
             u1 == Commit(u, link)
         IN Ok([u1 EXCEPT !.pk_store = PkInsert(@, Me, cursor)], Some(link))
    ELSE [store_state_for_all(u, wrapped.cursor.link, wrapped.cursor.seq_no)
            EXCEPT !.val = None]

\* commit_sequence that, without a wrapped message, advances the own cursor only
commit_sequence_own_only(u, wrapped) ==
    IF IsSome(wrapped.state)
    THEN LET link == Unwrap(wrapped.state).link
             cursor == next_seq([wrapped.cursor EXCEPT !.link = link.rel])
             u1 == Commit(u, link)
         IN Ok([u1 EXCEPT !.pk_store = PkInsert(@, Me, cursor)], Some(link))
    ELSE Ok([u EXCEPT !.pk_store =
                PkInsert(@, Me, new_at(wrapped.cursor.link, 0, wrapped.cursor.seq_no + 1))],
            None)

commit_sequence(u, wrapped) ==
    IF IsSome(wrapped.state)
    THEN LET link == Unwrap(wrapped.state).link
             cursor == next_seq([wrapped.cursor EXCEPT !.link = link.rel])
             u1 == Commit(u, link)
         IN Ok([u1 EXCEPT !.pk_store = PkInsert(@, Me, cursor)], Some(link))
    ELSE [store_state_for_all(u, wrapped.cursor.link, wrapped.cursor.seq_no)
            EXCEPT !.val = None]

unwrap_sequence(u, m) ==
    Then(ensure_appinst(u, m), UnwrapErr(u, m, SEQUENCE))

handle_sequence(u, m) ==
    IF unwrap_sequence(u, m) # NoErr THEN Err(u, unwrap_sequence(u, m))
    ELSE Ok(Commit(u, m.link),
            Some(<<m.link, <<m.link_to, m.sig_pk, m.ref_seq, m.ref_link>> >>))

----------------------------------------------------------------------------
(* User: address enumeration *)

\* gen_next_msg_id that, in branching mode, takes the seq number of the cursor
gen_next_msg_id_at_cursor_seq(link_gen, pk, cursor, branching) ==
    IF branching
    THEN {<<pk, new_at(link_from(link_gen, pk, new_at(cursor.link, 0, cursor.seq_no)),
                       0, 1)>>}
    ELSE {<<pk, new_at(link_from(link_gen, pk, new_at(cursor.link, 0, cursor.seq_no)),
                       0, cursor.seq_no)>>,
          <<pk, new_at(link_from(link_gen, pk, new_at(cursor.link, 0, cursor.seq_no - 1)),
                       0, cursor.seq_no - 1)>>}

\* gen_next_msg_id that pushes the candidate at the current seq_no only
gen_next_msg_id_current_only(link_gen, pk, cursor, branching) ==
    IF branching
    THEN {<<pk, new_at(link_from(link_gen, pk, new_at(cursor.link, 0, 1)), 0, 1)>>}
    ELSE {<<pk, new_at(link_from(link_gen, pk, new_at(cursor.link, 0, cursor.seq_no)),
                       0, cursor.seq_no)>>}

\* the candidates pushed for one (pk, cursor) of pk_store
gen_next_msg_id(link_gen, pk, cursor, branching) ==
    IF branching
    THEN {<<pk, new_at(link_from(link_gen, pk, new_at(cursor.link, 0, 1)), 0, 1)>>}
    ELSE {<<pk, new_at(link_from(link_gen, pk, new_at(cursor.link, 0, cursor.seq_no)),
                       0, cursor.seq_no)>>,
          <<pk, new_at(link_from(link_gen, pk, new_at(cursor.link, 0, cursor.seq_no - 1)),
                       0, cursor.seq_no - 1)>>}

gen_next_msg_ids(u, branching) ==
    UNION {gen_next_msg_id(u.link_gen, pk, u.pk_store[pk], branching) :
                pk \in DOMAIN u.pk_store}

----------------------------------------------------------------------------
(* The state: the fields of User, and what its caller holds *)

VARIABLES
    appinst,        \* Option<Link>: the announcement link of the channel
    author_sig_pk,  \* Option<PublicKey>
    flags,          \* u8 bit field
    pk_store,       \* sig_pk -> Cursor<Rel>
    psk_store,      \* the pre-shared key ids held
    link_store,     \* the rel links a state is committed under
    link_gen,       \* the link generator's anchored link
    wrapped_seq,    \* Option<WrapStateSequence>: a wrap_sequence result not yet committed
    entered,        \* the operation the User left FRESH by: "gen" while FRESH
    ret,            \* the operation that just returned: name, Result, value, arguments
    calls           \* the number of operations called so far

fields == <<appinst, author_sig_pk, flags, pk_store, psk_store, link_store, link_gen>>
vars == <<appinst, author_sig_pk, flags, pk_store, psk_store, link_store, link_gen,
          wrapped_seq, entered, ret, calls>>

\* the User as a record of its fields
User ==
    [appinst |-> appinst, author_sig_pk |-> author_sig_pk, flags |-> flags,
     pk_store |-> pk_store, psk_store |-> psk_store, link_store |-> link_store,
     link_gen |-> link_gen]

\* the same, after the step
UserNext ==
    [appinst |-> appinst', author_sig_pk |-> author_sig_pk', flags |-> flags',
     pk_store |-> pk_store', psk_store |-> psk_store', link_store |-> link_store',
     link_gen |-> link_gen']

\* no call is in progress and the last result was taken
Idle == [op |-> "idle", res |-> "ok", val |-> None, arg |-> None]

\* the operation `op` with arguments `arg` returned r
Returns(op, arg, r) ==
    /\ calls < MaxCalls
    /\ calls' = calls + 1
    /\ appinst' = r.u.appinst
    /\ author_sig_pk' = r.u.author_sig_pk
    /\ flags' = r.u.flags
    /\ pk_store' = r.u.pk_store
    /\ psk_store' = r.u.psk_store
    /\ link_store' = r.u.link_store
    /\ link_gen' = r.u.link_gen
    /\ ret' = [op |-> op, res |-> r.res, val |-> r.val,
               arg |-> IF r.res = "ok" THEN arg ELSE None]
    /\ entered' = IF entered = "gen" /\ r.res = "ok"
                     /\ op \in {"create_channel", "handle_announcement"}
                  THEN op ELSE entered

\* the caller holds the WrappedMessage a wrap operation just returned
WrapOps == {"announce", "subscribe", "share_keyload", "share_keyload_for_everyone",
            "sign_packet", "tag_packet"}
HoldsWrapped == ret.op \in WrapOps /\ ret.res = "ok"

----------------------------------------------------------------------------
(* The arguments the operations are called with *)

FlagValues == {0, FLAG_BRANCHING_MASK}

\* seq_no arguments of store_state_for_all
SeqArgs == {0, 2, U32_MAX}

\* link_to / ref_link arguments: the committed links and one that is not
RelArgs == link_store \cup {UnknownRel}

\* the announcement links of the channels that may exist
AnnLinks == {LinkGenGen(k, i) : k \in Keys, i \in ChannelIdxs}

\* announcements other participants can sign
PeerAnnouncements ==
    {[Message(l, ANNOUNCE, ANN_MESSAGE_NUM)
        EXCEPT !.sig_pk = p, !.flags = f, !.intact = b] :
            l \in AnnLinks, p \in Peers, f \in FlagValues, b \in BOOLEAN}

\* the bases a message's link may carry: the own channel's, and another
MsgBases == (IF IsSome(appinst) THEN {Unwrap(appinst).base} ELSE {}) \cup {OtherBase}

PeerLink(base, p, link_to, seq_no) ==
    [base |-> base, rel |-> link_to \o <<p, 0, seq_no>>]

PeerSubscribes ==
    {[Message(PeerLink(b, p, l, SUB_MESSAGE_NUM), SUBSCRIBE, SUB_MESSAGE_NUM)
        EXCEPT !.link_to = l, !.sig_pk = p, !.author_ke_pk = a, !.intact = i] :
            b \in MsgBases, p \in Peers, l \in RelArgs, a \in Keys, i \in BOOLEAN}

PeerKeyloads ==
    {[Message(PeerLink(b, p, l, 2), KEYLOAD, 2)
        EXCEPT !.link_to = l, !.sig_pk = p, !.psk_ids = ids, !.ke_pks = pks,
               !.intact = i] :
            b \in MsgBases, p \in Peers, l \in RelArgs, ids \in SUBSET PskIds,
            pks \in RecipientLists, i \in BOOLEAN}

PeerSignedPackets ==
    {[Message(PeerLink(b, p, l, 2), SIGNED_PACKET, 2)
        EXCEPT !.link_to = l, !.sig_pk = p, !.public_payload = x,
               !.masked_payload = y, !.intact = i] :
            b \in MsgBases, p \in Peers, l \in RelArgs, x \in Payloads,
            y \in MaskedPayloads, i \in BOOLEAN}

PeerTaggedPackets ==
    {[Message(PeerLink(b, p, l, 2), TAGGED_PACKET, 2)
        EXCEPT !.link_to = l, !.public_payload = x, !.masked_payload = y,
               !.intact = i] :
            b \in MsgBases, p \in Peers, l \in RelArgs, x \in Payloads,
            y \in MaskedPayloads, i \in BOOLEAN}

PeerSequences ==
    {[Message(PeerLink(b, p, l, SEQ_MESSAGE_NUM), SEQUENCE, SEQ_MESSAGE_NUM)
        EXCEPT !.link_to = l, !.sig_pk = p, !.ref_seq = 2, !.ref_link = l,
               !.intact = i] :
            b \in MsgBases, p \in Peers, l \in RelArgs, i \in BOOLEAN}

\* the messages of content type ct other participants can build
PeerMsgs(ct) ==
    CASE ct = ANNOUNCE -> PeerAnnouncements
      [] ct = SUBSCRIBE -> PeerSubscribes
      [] ct = KEYLOAD -> PeerKeyloads
      [] ct = SIGNED_PACKET -> PeerSignedPackets
      [] ct = TAGGED_PACKET -> PeerTaggedPackets
      [] ct = SEQUENCE -> PeerSequences

\* messages of another content type than ct
OtherMsgs(ct) == IF ct = ANNOUNCE THEN PeerSignedPackets ELSE PeerAnnouncements

\* every message a participant other than the User can build
Msgs == UNION {PeerMsgs(ct) : ct \in ContentTypes}

----------------------------------------------------------------------------
(* The operations as actions.  An operation is called when the caller has  *)
(* taken the last result (Idle); a message the User just wrapped may be    *)
(* committed or handed to a handle_* operation before anything else.       *)

\* an operation that is not given a message
Called(op, arg, r) ==
    /\ ret = Idle
    /\ Returns(op, arg, r)
    /\ UNCHANGED wrapped_seq

\* the messages a handle_* operation for content type ct is given now; none
\* once the calls of the behaviour are used up
Incoming(ct) ==
    IF calls >= MaxCalls THEN {}
    ELSE IF ret = Idle THEN PeerMsgs(ct) \cup OtherMsgs(ct)
    ELSE IF HoldsWrapped THEN {Unwrap(ret.val).message}
    ELSE {}

\* the caller takes the result
Resume ==
    /\ ret # Idle
    /\ ret' = Idle
    /\ UNCHANGED <<fields, wrapped_seq, entered, calls>>

CreateChannel ==
    \E i \in ChannelIdxs : Called("create_channel", <<i>>, create_channel(User, i))

Announce == Called("announce", <<>>, announce(User))

CommitWrapped ==
    /\ HoldsWrapped
    /\ Returns("commit_wrapped", <<Unwrap(ret.val).wrapped>>,
               commit_wrapped(User, Unwrap(ret.val).wrapped))
    /\ UNCHANGED wrapped_seq

HandleAnnouncement ==
    \E m \in Incoming(ANNOUNCE) :
        /\ Returns("handle_announcement", <<m>>, handle_announcement(User, m))
        /\ UNCHANGED wrapped_seq

Subscribe ==
    \E l \in RelArgs : Called("subscribe", <<l>>, subscribe(User, l))

HandleSubscribe ==
    \E m \in Incoming(SUBSCRIBE) :
        /\ Returns("handle_subscribe", <<m>>, handle_subscribe(User, m))
        /\ UNCHANGED wrapped_seq

ShareKeyload ==
    \E l \in RelArgs, ids \in SUBSET PskIds, pks \in SUBSET Keys :
        Called("share_keyload", <<l, ids, pks>>, share_keyload(User, l, ids, pks))

ShareKeyloadForEveryone ==
    \E l \in RelArgs :
        Called("share_keyload_for_everyone", <<l>>, share_keyload_for_everyone(User, l))

HandleKeyload ==
    \E m \in Incoming(KEYLOAD) :
        /\ Returns("handle_keyload", <<m>>, handle_keyload(User, m))
        /\ UNCHANGED wrapped_seq

SignPacket ==
    \E l \in RelArgs, x \in Payloads, y \in MaskedPayloads :
        Called("sign_packet", <<l, x, y>>, sign_packet(User, l, x, y))

HandleSignedPacket ==
    \E m \in Incoming(SIGNED_PACKET) :
        /\ Returns("handle_signed_packet", <<m>>, handle_signed_packet(User, m))
        /\ UNCHANGED wrapped_seq

TagPacket ==
    \E l \in RelArgs, x \in Payloads, y \in MaskedPayloads :
        Called("tag_packet", <<l, x, y>>, tag_packet(User, l, x, y))

HandleTaggedPacket ==
    \E m \in Incoming(TAGGED_PACKET) :
        /\ Returns("handle_tagged_packet", <<m>>, handle_tagged_packet(User, m))
        /\ UNCHANGED wrapped_seq

\* the caller keeps the WrapStateSequence until commit_sequence
WrapSequence ==
    \E l \in RelArgs :
        LET r == wrap_sequence(User, l)
        IN /\ ret = Idle
           /\ Returns("wrap_sequence", <<l>>, r)
           /\ wrapped_seq' = IF r.res = "ok" THEN Unwrap(r.val).wrapped ELSE wrapped_seq

CommitSequence ==
    /\ ret = Idle
    /\ IsSome(wrapped_seq)
    /\ Returns("commit_sequence", <<Unwrap(wrapped_seq)>>,
               commit_sequence(User, Unwrap(wrapped_seq)))
    /\ wrapped_seq' = None

HandleSequence ==
    \E m \in Incoming(SEQUENCE) :
        /\ Returns("handle_sequence", <<m>>, handle_sequence(User, m))
        /\ UNCHANGED wrapped_seq

GenNextMsgIds ==
    \E b \in BOOLEAN :
        Called("gen_next_msg_ids", <<b>>, Ok(User, Some(gen_next_msg_ids(User, b))))

StoreState ==
    \E pk \in Keys, l \in RelArgs :
        Called("store_state", <<pk, l>>, store_state(User, pk, l))

StoreStateForAll ==
    \E l \in RelArgs, n \in SeqArgs :
        \/ Called("store_state_for_all", <<l, n>>, store_state_for_all(User, l, n))
        \/ Called("store_state_for_all", <<l, n>>,
                  store_state_for_all_checked(User, l, n))

----------------------------------------------------------------------------
(* The specification *)

Init ==
    \E f \in FlagValues, psks \in SUBSET PskIds :
        /\ appinst = gen(f, psks).appinst
        /\ author_sig_pk = gen(f, psks).author_sig_pk
        /\ flags = gen(f, psks).flags
        /\ pk_store = gen(f, psks).pk_store
        /\ psk_store = gen(f, psks).psk_store
        /\ link_store = gen(f, psks).link_store
        /\ link_gen = gen(f, psks).link_gen
        /\ wrapped_seq = None
        /\ entered = "gen"
        /\ ret = Idle
        /\ calls = 0

Next ==
    \/ Resume
    \/ CreateChannel
    \/ Announce
    \/ CommitWrapped
    \/ HandleAnnouncement
    \/ Subscribe
    \/ HandleSubscribe
    \/ ShareKeyload
    \/ ShareKeyloadForEveryone
    \/ HandleKeyload
    \/ SignPacket
    \/ HandleSignedPacket
    \/ TagPacket
    \/ HandleTaggedPacket
    \/ WrapSequence
    \/ CommitSequence
    \/ HandleSequence
    \/ GenNextMsgIds
    \/ StoreState
    \/ StoreStateForAll

Spec == Init /\ [][Next]_vars

----------------------------------------------------------------------------
(* Properties *)

\* C1: in every reachable state, appinst is Some, author_sig_pk is Some and
\* pk_store holds the own signing key are all true or all false.
C1_AllOrNone ==
    /\ IsSome(appinst) <=> IsSome(author_sig_pk)
    /\ IsSome(author_sig_pk) <=> Me \in DOMAIN pk_store

\* C2: in every reachable state, if appinst is Some then pk_store holds the
\* own signing key with a cursor whose seq_no is at least 2.
C2_OwnCursorAtLeast2 ==
    IsSome(appinst) => (Me \in DOMAIN pk_store /\ pk_store[Me].seq_no >= 2)

\* C3: an operation that returns an error leaves appinst, author_sig_pk,
\* flags, pk_store and link_store as they were before the call.
C3_ErrorLeavesStateUnchanged ==
    [][ret'.res = "err" =>
          /\ appinst' = appinst
          /\ author_sig_pk' = author_sig_pk
          /\ flags' = flags
          /\ pk_store' = pk_store
          /\ link_store' = link_store]_vars

\* a signed packet with a tampered body was refused by a User that joined a
\* channel and holds committed states
C3_TamperedPacketRefused ==
    /\ ret.op = "handle_signed_packet"
    /\ ret.res = "err"
    /\ ret.val = Some(E_CRYPTO)
    /\ IsSome(appinst)
    /\ link_store # {}

\* C4: create_channel succeeds exactly when appinst is None; it then sets
\* appinst to the link generator's announcement link and stores the own key at
\* (appinst rel, 0, 2); otherwise it returns an error and changes nothing.
C4_CreateChannelSingleUse ==
    [][ret'.op = "create_channel" =>
          /\ ret'.res = "ok" <=> IsNone(appinst)
          /\ ret'.res = "ok" =>
                /\ link_gen' = LinkGenGen(Me, ret'.arg[1])
                /\ appinst' = Some(LinkGenGet(link_gen'))
                /\ pk_store' = PkInsert(pk_store, Me,
                                        new_at(Unwrap(appinst').rel, 0, 2))
                /\ pk_store'[Me].seq_no = 2
          /\ ret'.res # "ok" =>
                /\ ret'.res = "err"
                /\ UNCHANGED fields]_vars

\* a second create_channel was refused
C4_SecondCreateRefused ==
    /\ ret.op = "create_channel"
    /\ ret.res = "err"
    /\ entered = "create_channel"

\* C5: after a successful handle_announcement of m, appinst is m's link,
\* author_sig_pk and flags are those carried in m, the link store holds a state
\* under m's rel link, and pk_store maps the announced key and the own key to
\* (m's rel link, 0, 2).
C5_AnnouncementEffect ==
    (ret.op = "handle_announcement" /\ ret.res = "ok") =>
        LET m == ret.arg[1]
            cursor == [link |-> m.link.rel, branch_no |-> 0, seq_no |-> 2]
        IN /\ appinst = Some(m.link)
           /\ author_sig_pk = Some(m.sig_pk)
           /\ flags = m.flags
           /\ m.link.rel \in link_store
           /\ {m.sig_pk, Me} \subseteq DOMAIN pk_store
           /\ pk_store[m.sig_pk] = cursor
           /\ pk_store[Me] = cursor

\* another participant's announcement, with flags other than those given to
\* gen, was handled
C5_PeerAnnouncementHandled ==
    /\ ret.op = "handle_announcement"
    /\ ret.res = "ok"
    /\ ret.arg[1].sig_pk # Me
    /\ ret.arg[1].flags = FLAG_BRANCHING_MASK
    /\ calls = 1

\* the messages handle_announcement must refuse in the current state
C6_Refused(m) ==
    \/ m.content_type # ANNOUNCE
    \/ IsSome(appinst) /\ m.link # Unwrap(appinst)

\* C6: handle_announcement refuses, without a state change, every message that
\* is not an ANNOUNCE and every announcement whose link differs from a
\* registered appinst; a registered appinst is never rebound.
C6_RejectsForeignAnnouncement ==
    \A m \in Incoming(ANNOUNCE) :
        LET r == handle_announcement(User, m)
        IN /\ C6_Refused(m) => (r.res = "err" /\ r.u = User)
           /\ IsSome(appinst) => r.u.appinst = appinst

\* an announcement of another channel was refused by a registered User
C6_OtherChannelRefused ==
    /\ ret.op = "handle_announcement"
    /\ ret.res = "err"
    /\ ret.val = Some(E_REGISTERED)
    /\ IsSome(appinst)

\* C7: handle_announcement applied twice to the same message returns the same
\* result both times, and the second application leaves the state of the
\* first.
C7_HandleAnnouncementIdempotent ==
    \A m \in Incoming(ANNOUNCE) :
        LET r1 == handle_announcement(User, m)
            r2 == handle_announcement(r1.u, m)
        IN /\ r2.res = r1.res
           /\ r2.val = r1.val
           /\ r2.u = r1.u

\* an announcement was handled after the cursors had moved on, and handling
\* it again succeeds
C7_HandledAndRepeatable ==
    /\ ret.op = "handle_announcement"
    /\ ret.res = "ok"
    /\ calls >= 3
    /\ handle_announcement(User, ret.arg[1]).res = "ok"

\* the operations the state table does not allow in FRESH
C8_NotAllowedInFresh ==
    {"announce", "subscribe", "share_keyload", "share_keyload_for_everyone",
     "sign_packet", "tag_packet", "handle_subscribe", "handle_keyload",
     "handle_signed_packet", "handle_tagged_packet", "handle_sequence"}

\* C8: for a User as gen left it, announce, subscribe, share_keyload*,
\* sign_packet, tag_packet and the handle_* operations other than
\* handle_announcement each return an error.
C8_FreshAllowsOnlyCreateAndHandleAnnouncement ==
    (User = gen(flags, psk_store) /\ ret.op \in C8_NotAllowedInFresh) =>
        ret.res = "err"

\* C9: a User that became author by create_channel, and has handled nobody
\* else's announcement since, can handle the keyload it wrapped for its own
\* channel on a committed parent state.
C9_AuthorHandlesOwnKeyload ==
    (entered = "create_channel" /\ author_sig_pk \in {None, Some(Me)}) =>
        \A l \in link_store :
            LET w == share_keyload_for_everyone(User, l)
            IN w.res = "ok" =>
                    handle_keyload(User, Unwrap(w.val).message).res = "ok"

\* C10: share_keyload and share_keyload_for_everyone never succeed for a User
\* that joined by handle_announcement of another participant's announcement.
C10_KeyloadAuthorOnly ==
    (/\ ret.op \in {"share_keyload", "share_keyload_for_everyone"}
     /\ entered = "handle_announcement"
     /\ author_sig_pk # Some(Me)) =>
        ret.res # "ok"

\* the operations that wrap a message numbered by the own cursor
C11_NumberedWrapOps ==
    {"sign_packet", "tag_packet", "share_keyload", "share_keyload_for_everyone"}

\* C11: every message sign_packet, tag_packet, share_keyload or
\* share_keyload_for_everyone produces has the seq_num of the own cursor at the
\* time of wrapping, and a link whose base is the base of appinst.
C11_WrappedHeader ==
    (ret.op \in C11_NumberedWrapOps /\ ret.res = "ok") =>
        LET m == Unwrap(ret.val).message
        IN /\ Me \in DOMAIN pk_store
           /\ m.seq_num = pk_store[Me].seq_no
           /\ IsSome(appinst)
           /\ m.link.base = Unwrap(appinst).base

\* every wrapping operation, on every argument, leaves the User as it is
C12_WrapsLeaveUser ==
    /\ announce(User).u = User
    /\ \A l \in RelArgs :
        /\ subscribe(User, l).u = User
        /\ share_keyload_for_everyone(User, l).u = User
        /\ wrap_sequence(User, l).u = User
        /\ \A x \in Payloads, y \in MaskedPayloads :
            /\ sign_packet(User, l, x, y).u = User
            /\ tag_packet(User, l, x, y).u = User
        /\ \A ids \in SUBSET PskIds, pks \in SUBSET Keys :
            share_keyload(User, l, ids, pks).u = User

\* C12: the wrapping operations leave the whole user state unchanged; it is
\* commit_wrapped of the resulting WrapState that stores the state under the
\* message's link and advances the publisher's own cursor.
C12_CommitWrappedBumpsCursor ==
    /\ ret = Idle => C12_WrapsLeaveUser
    /\ (HoldsWrapped /\ ret.op \in C11_NumberedWrapOps) =>
        LET w == Unwrap(ret.val).wrapped
            r == commit_wrapped(User, w)
        IN /\ r.res = "ok"
           /\ LinkStoreContains(r.u.link_store, w.link.rel)
           /\ Me \in DOMAIN r.u.pk_store
           /\ r.u.pk_store[Me].seq_no = pk_store[Me].seq_no + 1

\* C13: handle_subscribe succeeds only for the User whose key-agreement key
\* the subscribe message was encrypted to; on success it commits the message's
\* state and stores the subscriber's signing key at (appinst rel, 0, 1), and
\* changes no other publisher's cursor.
C13_HandleSubscribeEffect ==
    \A m \in Incoming(SUBSCRIBE) :
        LET r == handle_subscribe(User, m)
        IN r.res = "ok" =>
            /\ m.author_ke_pk = Me
            /\ IsSome(appinst)
            /\ r.u.link_store = link_store \cup {m.link.rel}
            /\ DOMAIN r.u.pk_store = DOMAIN pk_store \cup {m.sig_pk}
            /\ r.u.pk_store[m.sig_pk] =
                    [link |-> Unwrap(appinst).rel, branch_no |-> 0, seq_no |-> 1]
            /\ \A k \in DOMAIN pk_store \ {m.sig_pk} : r.u.pk_store[k] = pk_store[k]
            /\ r.u.appinst = appinst
            /\ r.u.author_sig_pk = author_sig_pk
            /\ r.u.flags = flags

\* the author of a channel handled a subscribe of another participant, whose
\* key is now stored next to the author's own
C13_SubscriberStored ==
    /\ ret.op = "handle_subscribe"
    /\ ret.res = "ok"
    /\ entered = "create_channel"
    /\ ret.arg[1].sig_pk # Me
    /\ ret.arg[1].sig_pk \in DOMAIN pk_store
    /\ pk_store[ret.arg[1].sig_pk].seq_no = SEQ_MESSAGE_NUM
    /\ pk_store[Me].seq_no = 2

\* the receiver holds a pre-shared key listed in m, or is one of m's
\* key-agreement recipients
C14_Recipient(m) == m.psk_ids \cap psk_store # {} \/ Me \in m.ke_pks

\* C14: handle_keyload returns allowed = TRUE exactly when the receiver holds
\* a listed pre-shared key or its own signing key is among the key-agreement
\* recipients; a receiver with neither gets allowed = FALSE, not an error.
C14_AllowedIffRecipient ==
    \A m \in Incoming(KEYLOAD) :
        LET r == handle_keyload(User, m)
        IN /\ r.res = "ok" => r.val = Some(<<m.link, C14_Recipient(m)>>)
           /\ unwrap_keyload(User, m) = NoErr => r.res = "ok"

\* a keyload addressed to another participant only was handled by a User that
\* holds pre-shared keys, none of which it lists: allowed = FALSE, no error
C14_ThirdPartyNotAllowed ==
    /\ ret.op = "handle_keyload"
    /\ ret.res = "ok"
    /\ ret.val = Some(<<ret.arg[1].link, FALSE>>)
    /\ ret.arg[1].ke_pks = Peers
    /\ psk_store # {}

\* after handle_keyload returned r for m, every recipient listed in m is in
\* pk_store: at (appinst rel, 0, 2) if it was not there, as before if it was
C15_RecipientsStored(m, r) ==
    /\ DOMAIN r.u.pk_store = DOMAIN pk_store \cup m.ke_pks
    /\ \A k \in DOMAIN r.u.pk_store :
        r.u.pk_store[k] =
            IF k \in DOMAIN pk_store THEN pk_store[k]
            ELSE [link |-> Unwrap(appinst).rel, branch_no |-> 0, seq_no |-> 2]

\* C15 as stated: after any handle_keyload that returns without error, every
\* recipient listed in the keyload is in pk_store, new ones at
\* (appinst rel, 0, 2) and known ones with their previous cursor.
C15_RecipientsStoredOnOk ==
    \A m \in Incoming(KEYLOAD) :
        LET r == handle_keyload(User, m)
        IN r.res = "ok" => C15_RecipientsStored(m, r)

\* C15 amended: after a handle_keyload that returns allowed = TRUE, every
\* recipient listed in the keyload is in pk_store, new ones at
\* (appinst rel, 0, 2) and known ones with their previous cursor; after one
\* that returns allowed = FALSE, pk_store is as before.
C15_RecipientsStoredIfAllowed ==
    \A m \in Incoming(KEYLOAD) :
        LET r == handle_keyload(User, m)
        IN r.res = "ok" =>
            IF Unwrap(r.val)[2] THEN C15_RecipientsStored(m, r)
            ELSE r.u.pk_store = pk_store

\* an allowed keyload listing a key not seen before was handled: the new key
\* is at seq_no 2 and the own cursor, already moved on, is kept
C15_NewRecipientStored ==
    /\ ret.op = "handle_keyload"
    /\ ret.res = "ok"
    /\ Unwrap(ret.val)[2]
    /\ ret.arg[1].ke_pks = Recipients
    /\ pk_store["C"].seq_no = 2
    /\ pk_store[Me].seq_no = 3

\* the BRANCHING bit of flags is set
C16_Branching == (flags \div FLAG_BRANCHING_MASK) % 2 = 1

\* the three results of a wrap_sequence(ref_link) that returned w
C16_Outcome(ref_link, w) ==
    IF Me \notin DOMAIN pk_store
    THEN w.message = None /\ w.wrapped = None
    ELSE LET cursor == pk_store[Me]
         IN IF C16_Branching
            THEN /\ IsSome(w.message)
                 /\ Unwrap(w.message).content_type = SEQUENCE
                 /\ Unwrap(w.message).seq_num = 1
                 /\ Unwrap(w.message).link_to = cursor.link
                 /\ Unwrap(w.message).sig_pk = Me
                 /\ Unwrap(w.message).ref_seq = cursor.seq_no
                 /\ Unwrap(w.message).ref_link = ref_link
                 /\ IsSome(w.wrapped)
                 /\ Unwrap(w.wrapped).cursor = cursor
                 /\ IsSome(Unwrap(w.wrapped).state)
            ELSE /\ w.message = None
                 /\ w.wrapped =
                        Some([cursor |-> [link |-> ref_link,
                                          branch_no |-> cursor.branch_no,
                                          seq_no |-> cursor.seq_no],
                              state |-> None])

\* C16 as stated: wrap_sequence has exactly three outcomes: an empty result
\* without an own cursor; with the BRANCHING flag a SEQUENCE message with
\* seq_num 1 carrying (cursor.link, own key, cursor.seq_no, ref_link) and the
\* unchanged cursor; without the flag no message and the cursor with its link
\* replaced by ref_link.
C16_ThreeOutcomes ==
    ret.op = "wrap_sequence" =>
        /\ ret.res = "ok"
        /\ C16_Outcome(ret.arg[1], Unwrap(ret.val))

\* C16 amended: a wrap_sequence that returns Ok has exactly those three
\* outcomes; it can also return an error, only with the BRANCHING flag set and
\* an own cursor in pk_store, when the sequence message cannot be wrapped.
C16_ThreeOutcomesOrError ==
    ret.op = "wrap_sequence" =>
        IF ret.res = "ok" THEN C16_Outcome(ret.arg[1], Unwrap(ret.val))
        ELSE /\ ret.res = "err"
             /\ C16_Branching
             /\ Me \in DOMAIN pk_store

\* a SEQUENCE message was wrapped that refers to another link than the one
\* the own cursor is at
C16_SequenceWrapped ==
    /\ ret.op = "wrap_sequence"
    /\ ret.res = "ok"
    /\ IsSome(Unwrap(ret.val).message)
    /\ Unwrap(Unwrap(ret.val).message).ref_link # pk_store[Me].link

\* C17: commit_sequence of a result that carries a wrapped sequence message
\* commits the message's state to the link store, stores under the own key a
\* cursor at the rel of the sequence message's link with seq_no one more than
\* the seq_no captured at wrap time, leaves every other cursor unchanged and
\* returns Some(sequence link).
C17_CommitSequenceMessage ==
    (IsSome(wrapped_seq) /\ IsSome(Unwrap(wrapped_seq).state)) =>
        LET w == Unwrap(wrapped_seq)
            link == Unwrap(w.state).link
            r == commit_sequence(User, w)
        IN /\ r.res = "ok"
           /\ r.val = Some(link)
           /\ r.u.link_store = link_store \cup {link.rel}
           /\ DOMAIN r.u.pk_store = DOMAIN pk_store \cup {Me}
           /\ r.u.pk_store[Me] = [link |-> link.rel,
                                  branch_no |-> w.cursor.branch_no,
                                  seq_no |-> w.cursor.seq_no + 1]
           /\ \A k \in DOMAIN pk_store \ {Me} : r.u.pk_store[k] = pk_store[k]

\* a wrapped sequence message was committed by a User that knows another
\* publisher: the own cursor is at the sequence message, the other's is not
C17_SequenceCommitted ==
    /\ ret.op = "commit_sequence"
    /\ ret.res = "ok"
    /\ IsSome(ret.val)
    /\ pk_store[Me].link = Unwrap(ret.val).rel
    /\ pk_store[Me].seq_no = ret.arg[1].cursor.seq_no + 1
    /\ \E k \in DOMAIN pk_store \ {Me} : pk_store[k].link # pk_store[Me].link

\* C18: commit_sequence of a result without a wrapped message returns None and
\* acts as store_state_for_all(cursor.link, cursor.seq_no): afterwards every
\* cursor in pk_store, the own one included, is (link, 0, seq_no + 1), and the
\* publishers in pk_store and the link store are as before.
C18_CommitSequenceForAll ==
    (IsSome(wrapped_seq) /\ IsNone(Unwrap(wrapped_seq).state)) =>
        LET w == Unwrap(wrapped_seq)
            r == commit_sequence(User, w)
        IN /\ r.res = "ok"
           /\ r.val = None
           /\ r.u = store_state_for_all(User, w.cursor.link, w.cursor.seq_no).u
           /\ DOMAIN r.u.pk_store = DOMAIN pk_store
           /\ Me \in DOMAIN r.u.pk_store
           /\ \A k \in DOMAIN r.u.pk_store :
                r.u.pk_store[k] = [link |-> w.cursor.link, branch_no |-> 0,
                                   seq_no |-> w.cursor.seq_no + 1]
           /\ r.u.link_store = link_store

\* a result without a message was committed by a User that knows another
\* publisher, and both cursors are one past the seq_no captured at wrap time
C18_AllCursorsAdvanced ==
    /\ ret.op = "commit_sequence"
    /\ ret.res = "ok"
    /\ IsNone(ret.val)
    /\ DOMAIN pk_store = Keys
    /\ \A k \in Keys : /\ pk_store[k].seq_no = ret.arg[1].cursor.seq_no + 1
                       /\ pk_store[k].link = ret.arg[1].cursor.link

\* the candidate of publisher pk at seq number n: the address
\* link_from(pk, (cursor.link, 0, n)), at branch 0 and seq number n
C19_Candidate(pk, n) ==
    <<pk, [link |-> link_from(link_gen, pk,
                              [link |-> pk_store[pk].link, branch_no |-> 0,
                               seq_no |-> n]),
           branch_no |-> 0, seq_no |-> n]>>

\* ids holds, for every publisher of pk_store, exactly the candidates at the
\* seq numbers seqs(pk), and nothing else
C19_ExactlyAt(ids, seqs(_)) ==
    /\ ids = UNION {{C19_Candidate(pk, n) : n \in seqs(pk)} :
                        pk \in DOMAIN pk_store}
    /\ \A pk \in DOMAIN pk_store :
        Cardinality({id \in ids : id[1] = pk}) = Cardinality(seqs(pk))

C19_SequenceSlot(pk) == {1}
C19_LastTwoSlots(pk) == {pk_store[pk].seq_no, pk_store[pk].seq_no - 1}

\* C19: gen_next_msg_ids(true) returns exactly one candidate per publisher of
\* pk_store, at seq number 1 with address link_from(pk, (cursor.link, 0, 1));
\* gen_next_msg_ids(false) returns exactly two per publisher, at the
\* publisher's seq_no and at seq_no - 1, both from the publisher's cursor
\* link; the call changes no state.
C19_NextMsgIds ==
    [][ret'.op = "gen_next_msg_ids" =>
          /\ UNCHANGED fields
          /\ ret'.res = "ok"
          /\ IF ret'.arg[1]
             THEN C19_ExactlyAt(Unwrap(ret'.val), C19_SequenceSlot)
             ELSE C19_ExactlyAt(Unwrap(ret'.val), C19_LastTwoSlots)]_vars

\* the candidates of two publishers at different cursors were enumerated in
\* non-branching mode: four candidates
C19_TwoPublishersEnumerated ==
    /\ ret.op = "gen_next_msg_ids"
    /\ ret.res = "ok"
    /\ ~ret.arg[1]
    /\ DOMAIN pk_store = Keys
    /\ pk_store[Me].seq_no # pk_store["B"].seq_no
    /\ Cardinality(Unwrap(ret.val)) = 4

\* C20: once appinst is Some(L) it is never reset to None and never changes
\* to another link, so a User never returns to FRESH.
C20_AppinstOneWay ==
    [][IsSome(appinst) => appinst' = appinst]_vars

\* a User that created its channel later handled an announcement, and appinst
\* is still the link of the channel it created
C20_StillBound ==
    /\ entered = "create_channel"
    /\ ret.op = "handle_announcement"
    /\ ret.res = "ok"
    /\ appinst = Some(LinkGenGen(Me, 0))

\* C21: no public operation panics: in every reachable state and for every
\* argument a violated precondition comes back as an error, never as an abort.
C21_NoPanic == ret.res # "panic"

\* C22: cursors increase monotonically: no operation removes a publisher key
\* from pk_store or decreases the seq_no of its cursor.
C22_CursorsMonotonic ==
    [][\A k \in DOMAIN pk_store :
            /\ k \in DOMAIN pk_store'
            /\ pk_store'[k].seq_no >= pk_store[k].seq_no]_vars

\* the candidates gen_next_msg_ids(true) of user u yields for the publisher Me
C23_CandidatesForMe(u) == {id \in gen_next_msg_ids(u, TRUE) : id[1] = Me}

\* users of the same channel whose stored cursor for Me is the one Me holds:
\* they differ in the other publishers they know, their flags and their keys
C23_Observers ==
    {[User EXCEPT !.pk_store = [k \in D |-> IF k = Me THEN pk_store[Me]
                                            ELSE [pk_store[Me] EXCEPT !.seq_no = n]],
                  !.flags = f,
                  !.psk_store = q] :
        D \in {S \in SUBSET Recipients : Me \in S}, n \in {1, 2},
        f \in FlagValues, q \in SUBSET PskIds}

\* C23: in branching mode, after commit_sequence committed a sequence message
\* of the User, the candidate gen_next_msg_ids(true) yields for the User is the
\* address of the SEQUENCE message its next wrap_sequence produces, and a user
\* whose stored cursor for that publisher is the same computes the same
\* candidate.
C23_CandidateIsNextSequence ==
    (/\ ret.op = "commit_sequence"
     /\ ret.res = "ok"
     /\ IsSome(ret.val)
     /\ C16_Branching) =>
        /\ \A l \in RelArgs :
            LET w == wrap_sequence(User, l)
            IN /\ w.res = "ok"
               /\ IsSome(Unwrap(w.val).message)
               /\ C23_CandidatesForMe(User) =
                    {<<Me, [link |-> Unwrap(Unwrap(w.val).message).link,
                            branch_no |-> 0, seq_no |-> 1]>>}
        /\ \A u2 \in C23_Observers :
            C23_CandidatesForMe(u2) = C23_CandidatesForMe(User)

\* a sequence message was committed in branching mode, the own cursor is at
\* its link with seq_no 3, and another publisher is known
C23_AfterCommittedSequence ==
    /\ ret.op = "commit_sequence"
    /\ ret.res = "ok"
    /\ IsSome(ret.val)
    /\ C16_Branching
    /\ pk_store[Me].link = Unwrap(ret.val).rel
    /\ pk_store[Me].seq_no = 3
    /\ DOMAIN pk_store # {Me}


C25_CursorsAtLeastOne ==
    /\ \A k \in DOMAIN pk_store :
          /\ pk_store[k].branch_no = 0
          /\ pk_store[k].seq_no # 0
    /\ \A id \in gen_next_msg_ids(User, FALSE) : id[2].seq_no # U32_MAX


\* C26: no cursor update is lost between wrap_sequence and the commit_sequence
\* of its result: whatever was called in between, the own seq_no after
\* commit_sequence is exactly one greater than immediately before it.
C26_CommitSequenceAddsOne ==
    [][(ret'.op = "commit_sequence" /\ ret'.res = "ok" /\ Me \in DOMAIN pk_store) =>
            /\ Me \in DOMAIN pk_store'
            /\ pk_store'[Me].seq_no = pk_store[Me].seq_no + 1]_vars


\* C27: once author_sig_pk is Some(k) it never changes to a different key, and
\* no later announcement accepted by handle_announcement replaces the recorded
\* author or resets the author's and the own cursor.
C27_AuthorFixed ==
    [][IsSome(author_sig_pk) =>
          /\ author_sig_pk' = author_sig_pk
          /\ (ret'.op = "handle_announcement" /\ ret'.res = "ok") =>
                /\ PkGet(pk_store', Unwrap(author_sig_pk)) = PkGet(pk_store, Unwrap(author_sig_pk))
                /\ PkGet(pk_store', Me) = PkGet(pk_store, Me)]_vars

====
